---- MODULE Spec2Model ----
(***************************************************************************)
(* Appointment lifecycle and reminder scheduling of the service website.   *)
(*                                                                         *)
(* The model follows backend/controllers/AppointmentController.js (the     *)
(* request, update, cancel, reassign and changeStatus handlers, together   *)
(* with the express-validator chains of AppointmentValidators.js that the  *)
(* routes put in front of them) and services/AppointmentScheduler.js (the  *)
(* periodic reminder scan).                                                *)
(*                                                                         *)
(* Time is counted in hours.  Free-text fields that no handler reads       *)
(* (title, location) are left out; description is the sequence of notes    *)
(* the handlers append to it.  Identifiers handed to the handlers refer    *)
(* to documents of the user directory; the directory itself does not       *)
(* change during a run.                                                    *)
(***************************************************************************)
EXTENDS Integers, Sequences, FiniteSets, TLC

\* ------------------------------------------------------------------------
\* Bounds of the model
MaxAppointments == 1
MaxNow == 1
MaxNotes == 1

\* ------------------------------------------------------------------------
\* Program constants (hours)
REMINDER_DAY == 24
REMINDER_HOUR == 1
TIMEFRAME_DAY == 24
TIMEFRAME_HOUR == 1

None == "NONE"

\* ------------------------------------------------------------------------
\* User directory
AllUsers == {"admin", "agent", "client", "owner"}

Role(u) ==
  CASE u = "admin" -> "ADMIN"
    [] u = "agent" -> "AGENT"
    [] OTHER -> "USER"

\* ------------------------------------------------------------------------
\* Appointment schema
ServiceTypes == {"REAL_ESTATE", "INSURANCE", "VISA", "TAX", "OTHER"}

validStatuses == {"SCHEDULED", "COMPLETED", "CANCELLED", "RESCHEDULED"}

VARIABLES
  users,         \* documents of the Users collection
  appointments,  \* the Appointment collection: a sequence, _id = index
  now,           \* wall clock
  scan,          \* the running sendAppointmentReminders call, if any
  calls,         \* handler calls that have read and not yet written
  overlap,       \* a sendAppointmentReminders call started while scan runs
  burst,         \* history: dispatches of the scans run back to back
  last           \* history: the step just taken and its response

vars == <<users, appointments, now, scan, calls, overlap, burst, last>>

Ids == 1..MaxAppointments

Exists(id) == id \in 1..Len(appointments)

NoId == 0

\* User.findById(userId)
\* findUser that takes every id for a user's
findUser_Always(userId) == userId

findUser(userId) == IF userId \in users THEN userId ELSE None

\* User.findOne({ role: 'ADMIN' })
findAdmin ==
  IF \E u \in users : Role(u) = "ADMIN"
  THEN CHOOSE u \in users : Role(u) = "ADMIN"
  ELSE None

\* ------------------------------------------------------------------------
\* Responses and history records

\* A catalog findById that returns null
NoRecord ==
  [exists |-> FALSE, agent |-> None, owner |-> None, taxProfessional |-> None]

NoLookup ==
  [serviceType |-> None, serviceId |-> None, record |-> NoRecord,
   startTime |-> 0, endTime |-> 0]

\* req.query of a listing without parameters
NoQuery ==
  [has |-> {}, status |-> None, serviceType |-> None, startDate |-> 0,
   endDate |-> 0, page |-> 0, limit |-> 0]

\* The appointments and the total a listing answers with
NoResult == [appointments |-> <<>>, total |-> 0]

\* last: the handler (or scan step) just run, who called it, on which
\* appointment, the HTTP status and error it answered with, the
\* notifications it handed to EmailService as <<kind, recipient>>, the
\* status, staff or reason it was called with, what a request asked for and
\* the catalog record it looked up, the reminder a scan step worked on,
\* whether the notifications of a handler went out, the keys of the body
\* an update was called with, the query of a listing and what it returned
Response(op, actor, id, code, msg, mail) ==
  [op |-> op, actor |-> actor, id |-> id, code |-> code, msg |-> msg,
   mail |-> mail, arg |-> None, lookup |-> NoLookup, item |-> <<NoId, 0>>,
   notifier |-> None, keys |-> {}, query |-> NoQuery, result |-> NoResult]

\* scan: where the running call is, the reminders it still has to work
\* through, how the dispatch of the first of them ended, the reminders it
\* has marked on its documents without a save that went through
IdleScan == [pc |-> "idle", items |-> <<>>, outcome |-> None, unsaved |-> {}]

\* No document: what a call holds before its findById
NoAppointment ==
  [ startTime |-> 0, endTime |-> 0, serviceType |-> None, serviceId |-> None,
    client |-> None, staff |-> None, status |-> None, reminders |-> <<>>,
    description |-> <<>>, updated_at |-> 0 ]

\* An empty req.body
NoBody ==
  [has |-> {}, status |-> None, staff |-> None, startTime |-> 0,
   endTime |-> 0, reminders |-> <<>>, description |-> <<>>,
   client |-> None, serviceType |-> None, serviceId |-> None]

\* The requests the server works on at the same time
Slots == {"one", "two"}

\* A handler call between its reads and its write: the handler, the caller,
\* the appointment id, the status or reason and the notes it was called
\* with, the document its findById returned, the body of an update, whether
\* the caller was found to be an administrator
IdleCall ==
  [pc |-> "idle", op |-> None, actor |-> None, id |-> NoId, arg |-> None,
   notes |-> None, doc |-> NoAppointment, body |-> NoBody, admin |-> FALSE]

ItemSet == Ids \X (1..2)

\* burst: the scans run back to back since the last handler call or restart:
\* runs completed, whether the running scan belongs to them, the reminders
\* due and unsent when the first of them started, dispatches per reminder
NoBurst ==
  [runs |-> 0, live |-> FALSE, due |-> {}, count |-> [i \in ItemSet |-> 0]]

Init ==
  /\ users \in {AllUsers, AllUsers \ {"admin"}}
  /\ appointments = <<>>
  /\ now = 0
  /\ scan = IdleScan
  /\ calls = [slot \in Slots |-> IdleCall]
  /\ overlap = IdleScan
  /\ burst = NoBurst
  /\ last = Response("init", None, NoId, 0, None, {})

\* The clock advances
Tick ==
  /\ now < MaxNow
  /\ now' = now + 1
  /\ last' = Response("tick", None, NoId, 0, None, {})
  /\ UNCHANGED <<users, calls, overlap, appointments, scan, burst>>

\* Every call of a lifecycle handler ends the run of back-to-back scans
Disturbed == NoBurst

\* EmailService.sendEmail: transporter.sendMail inside try/catch, the result
\* object says whether the mail went out
sendEmailResults == {"delivered", "failed"}

\* Continue that lets a failed notification reach the handler's outer catch
Continue_Rethrow(code, outcome) == IF outcome = "failed" THEN 500 ELSE code

\* try { await EmailService... } catch (emailError) { console.error(...) }
\* "Continue even if email fails": the status the handler goes on to answer
Continue(code, outcome) == code

\* The answers of a handler that hands its notifications to EmailService
\* after its write: one for each way the dispatch can end
Notify(response) ==
  IF response.mail = {}
  THEN {response}
  ELSE {[response EXCEPT !.notifier = outcome,
                         !.code = Continue(response.code, outcome)] :
          outcome \in sendEmailResults}

\* ------------------------------------------------------------------------
\* POST /api/appointments: appointmentRequestValidator, requestAppointment

\* Records of the four service catalogs, as far as requestAppointment reads
\* them
CatalogRecord(agent, taxProfessional) ==
  [exists |-> TRUE, agent |-> agent, owner |-> "owner",
   taxProfessional |-> taxProfessional]

CatalogRecords ==
  {CatalogRecord(None, None), CatalogRecord("agent", None),
   CatalogRecord(None, "agent")}

ServiceIds == {None, "svc"}

\* appointmentRequestValidator: startTime in the future, endTime after it,
\* serviceType one of the enum
requestValidator(startTime, endTime, serviceType) ==
  /\ startTime > now
  /\ endTime > startTime
  /\ serviceType \in ServiceTypes

\* ServiceStaff with the owner of a property taken before its agent
ServiceStaff_OwnerFirst(serviceType, serviceId, record) ==
  IF serviceId = None
  THEN [missing |-> FALSE, staffId |-> None]
  ELSE CASE serviceType = "REAL_ESTATE" ->
              IF ~record.exists THEN [missing |-> TRUE, staffId |-> None]
              ELSE [missing |-> FALSE,
                    staffId |-> IF record.owner # None THEN record.owner
                                ELSE record.agent]
         [] serviceType \in {"INSURANCE", "VISA"} ->
              IF ~record.exists THEN [missing |-> TRUE, staffId |-> None]
              ELSE [missing |-> FALSE, staffId |-> record.agent]
         [] serviceType = "TAX" ->
              IF ~record.exists THEN [missing |-> TRUE, staffId |-> None]
              ELSE [missing |-> FALSE, staffId |-> record.taxProfessional]
         [] OTHER -> [missing |-> FALSE, staffId |-> None]

\* The switch on serviceType: [missing |-> the referenced record does not
\* exist, staffId |-> the staff the record names, None when it names none]
ServiceStaff(serviceType, serviceId, record) ==
  IF serviceId = None
  THEN [missing |-> FALSE, staffId |-> None]
  ELSE CASE serviceType = "REAL_ESTATE" ->
              IF ~record.exists THEN [missing |-> TRUE, staffId |-> None]
              ELSE [missing |-> FALSE,
                    staffId |-> IF record.agent # None THEN record.agent
                                ELSE record.owner]
         [] serviceType \in {"INSURANCE", "VISA"} ->
              IF ~record.exists THEN [missing |-> TRUE, staffId |-> None]
              ELSE [missing |-> FALSE, staffId |-> record.agent]
         [] serviceType = "TAX" ->
              IF ~record.exists THEN [missing |-> TRUE, staffId |-> None]
              ELSE [missing |-> FALSE, staffId |-> record.taxProfessional]
         [] OTHER -> [missing |-> FALSE, staffId |-> None]

\* AdminFallback without the check that an administrator was found
AdminFallback_Unchecked(staffId) == IF staffId = None THEN "admin" ELSE staffId

\* "If no staff was determined, assign to an admin"
AdminFallback(staffId) == IF staffId = None THEN findAdmin ELSE staffId

\* InitialReminders with both reminders one day before
InitialReminders_SameOffset(startTime) ==
  << [time |-> startTime - REMINDER_DAY, sent |-> FALSE],
     [time |-> startTime - REMINDER_DAY, sent |-> FALSE] >>

\* The two reminders requestAppointment schedules
InitialReminders(startTime) ==
  << [time |-> startTime - REMINDER_DAY, sent |-> FALSE],
     [time |-> startTime - REMINDER_HOUR, sent |-> FALSE] >>

\* new Appointment({...})
NewAppointment(clientId, staffId, startTime, endTime, serviceType, serviceId) ==
  [ startTime |-> startTime, endTime |-> endTime,
    serviceType |-> serviceType, serviceId |-> serviceId,
    client |-> clientId, staff |-> staffId,
    status |-> "SCHEDULED",
    reminders |-> InitialReminders(startTime),
    description |-> <<>>,
    updated_at |-> now ]

\* The catalog lookups a request can meet: none is made without a serviceId
\* or for OTHER
Lookups(serviceType, serviceId) ==
  IF serviceId = None \/ serviceType = "OTHER"
  THEN {NoRecord}
  ELSE {NoRecord} \cup CatalogRecords

requestAppointment(actor, startTime, endTime, serviceType, serviceId, record) ==
  LET resolved == ServiceStaff(serviceType, serviceId, record)
      staffId == AdminFallback(resolved.staffId)
      id == Len(appointments) + 1
      reply(code, msg, mail) ==
        [Response("request", actor, IF code = 201 THEN id ELSE NoId, code, msg, mail)
           EXCEPT !.lookup = [serviceType |-> serviceType, serviceId |-> serviceId,
                              record |-> record, startTime |-> startTime,
                              endTime |-> endTime]]
  IN
  /\ burst' = Disturbed
  /\ UNCHANGED <<users, calls, overlap, now, scan>>
  /\ IF ~requestValidator(startTime, endTime, serviceType)
     THEN /\ last' = reply(400, "ValidationError", {})
          /\ UNCHANGED appointments
     ELSE IF resolved.missing
     THEN /\ last' = reply(404, "ReferenceNotFound", {})
          /\ UNCHANGED appointments
     ELSE IF staffId = None
     THEN /\ last' = reply(404, "NoAdminAvailable", {})
          /\ UNCHANGED appointments
     ELSE /\ id <= MaxAppointments
          /\ appointments' =
               Append(appointments,
                      NewAppointment(actor, staffId, startTime, endTime,
                                     serviceType, serviceId))
          /\ last' \in Notify(reply(201, "OK",
                           {<<"confirmation", actor>>, <<"assignment", staffId>>}))

\* The <<startTime, endTime>> pairs requests are made with: a start that is
\* not in the future, an end that is not after the start, a valid pair one
\* hour ahead
TimePairs ==
  {<<now, now + 1>>, <<now + 1, now + 1>>, <<now + 1, now + 2>>}

\* and a valid pair two hours ahead
MoreTimePairs == TimePairs \cup {<<now + 2, now + 3>>}

\* Requests by the callers in Actors for the <<serviceType, serviceId>> pairs
\* in Kinds, with the times in Times
RequestOf(Actors, Kinds, Times) ==
  \E actor \in Actors \cap users, times \in Times, kind \in Kinds :
    \E record \in Lookups(kind[1], kind[2]) :
      requestAppointment(actor, times[1], times[2], kind[1], kind[2], record)

AllKinds == ServiceTypes \X ServiceIds

RequestAny == RequestOf({"client", "agent"}, AllKinds, TimePairs)

\* ------------------------------------------------------------------------
\* Permission checks shared by the handlers

isAdmin(actor) == Role(actor) = "ADMIN"

\* isClient that holds of every caller
isClient_Always(actor, appointment) == TRUE

isClient(actor, appointment) == appointment.client = actor

\* isAssignedStaff that holds of the client as well
isAssignedStaff_OrClient(actor, appointment) ==
  appointment.staff = actor \/ appointment.client = actor

isAssignedStaff(actor, appointment) == appointment.staff = actor

\* appointment.description += note
AppendNote(description, note) ==
  IF note = None THEN description ELSE Append(description, note)

\* The notes a description can still take within the bound
NoteFits(id, note) ==
  IF note = None THEN TRUE
  ELSE IF ~Exists(id) THEN TRUE
  ELSE Len(appointments[id].description) < MaxNotes

\* ------------------------------------------------------------------------
\* PUT /api/appointments/:id: appointmentUpdateValidator, updateAppointment

\* req.body: has names the keys that are present
Body(has, status, staff, startTime, endTime, reminders) ==
  [has |-> has, status |-> status, staff |-> staff, startTime |-> startTime,
   endTime |-> endTime, reminders |-> reminders, description |-> <<>>,
   client |-> None, serviceType |-> None, serviceId |-> None]

\* appointmentUpdateValidator: endTime is compared with startTime only when
\* the body carries both; status must be one of the enum; staff, when the
\* body carries it, must be an id (isMongoId refuses an empty value)
updateValidator(body) ==
  /\ ("endTime" \in body.has /\ "startTime" \in body.has)
       => body.endTime > body.startTime
  /\ "status" \in body.has => body.status \in validStatuses
  /\ "staff" \in body.has => body.staff # None

\* allowedUpdates with staff open to every caller
allowedUpdates_StaffForAll(admin) ==
  {"description", "startTime", "endTime", "status", "reminders", "staff"}

\* allowedUpdates with the keys that say whose appointment it is and for
\* which service
allowedUpdates_WithIdentity(admin) ==
  {"description", "startTime", "endTime", "status", "reminders",
   "client", "serviceType", "serviceId"}
    \cup (IF admin THEN {"staff"} ELSE {})

allowedUpdates(admin) ==
  {"description", "startTime", "endTime", "status", "reminders"}
    \cup (IF admin THEN {"staff"} ELSE {})

\* ApplyUpdates that writes the staff key whether the body carries it or not
ApplyUpdates_Unfiltered(appointment, body, allowed) ==
  LET set(f) == f \in allowed
  IN [appointment EXCEPT
        !.status = IF set("status") /\ "status" \in body.has THEN body.status ELSE @,
        !.staff = IF set("staff") THEN body.staff ELSE @,
        !.startTime = IF set("startTime") /\ "startTime" \in body.has
                      THEN body.startTime ELSE @,
        !.endTime = IF set("endTime") /\ "endTime" \in body.has
                    THEN body.endTime ELSE @,
        !.reminders = IF set("reminders") /\ "reminders" \in body.has
                      THEN body.reminders ELSE @,
        !.updated_at = now]

\* findByIdAndUpdate(id, filteredUpdates): the allowed keys of the body
\* replace the stored fields, updated_at is stamped
ApplyUpdates(appointment, body, allowed) ==
  LET set(f) == f \in body.has \cap allowed
  IN [appointment EXCEPT
        !.status = IF set("status") THEN body.status ELSE @,
        !.staff = IF set("staff") THEN body.staff ELSE @,
        !.startTime = IF set("startTime") THEN body.startTime ELSE @,
        !.endTime = IF set("endTime") THEN body.endTime ELSE @,
        !.reminders = IF set("reminders") THEN body.reminders ELSE @,
        !.description = IF set("description") THEN body.description ELSE @,
        !.client = IF set("client") THEN body.client ELSE @,
        !.serviceType = IF set("serviceType") THEN body.serviceType ELSE @,
        !.serviceId = IF set("serviceId") THEN body.serviceId ELSE @,
        !.updated_at = now]

\* { runValidators: true }: the schema's validators run on the paths the
\* update sets; staff is required
runValidators(body, allowed) ==
  "staff" \in body.has \cap allowed => body.staff # None

updateAppointment(actor, id, body) ==
  LET reply(code, msg, mail) ==
        [Response("update", actor, id, code, msg, mail) EXCEPT !.keys = body.has]
  IN
  /\ burst' = Disturbed
  /\ UNCHANGED <<users, calls, overlap, now, scan>>
  /\ IF ~updateValidator(body)
     THEN /\ last' = reply(400, "ValidationError", {})
          /\ UNCHANGED appointments
     ELSE IF ~Exists(id)
     THEN /\ last' = reply(404, "NotFound", {})
          /\ UNCHANGED appointments
     ELSE IF findUser(actor) = None
     THEN /\ last' = reply(404, "UserNotFound", {})
          /\ UNCHANGED appointments
     ELSE IF ~isAdmin(actor) /\ ~isAssignedStaff(actor, appointments[id])
     THEN /\ last' = reply(403, "Forbidden", {})
          /\ UNCHANGED appointments
     ELSE IF ~runValidators(body, allowedUpdates(isAdmin(actor)))
     THEN /\ last' = reply(500, "ServerError", {})
          /\ UNCHANGED appointments
     ELSE LET previousStatus == appointments[id].status
              updated == ApplyUpdates(appointments[id], body,
                                      allowedUpdates(isAdmin(actor)))
          IN /\ appointments' = [appointments EXCEPT ![id] = updated]
             /\ last' \in Notify(reply(200, "OK",
                              IF previousStatus # updated.status
                              THEN {<<"statusChange", updated.client>>}
                              ELSE {}))

\* ------------------------------------------------------------------------
\* POST /api/appointments/:id/cancel: cancelAppointment

\* Cancellable that refuses CANCELLED only
Cancellable_NotCancelled(status) == status # "CANCELLED"

\* "Only allow cancellation if status is SCHEDULED or RESCHEDULED"
Cancellable(status) == status \in {"SCHEDULED", "RESCHEDULED"}

\* cancelAppointment with the status check ahead of the permission check
cancelAppointment_StatusFirst(actor, id, reason) ==
  LET reply(code, msg, mail) ==
        [Response("cancel", actor, id, code, msg, mail) EXCEPT !.arg = reason]
  IN
  /\ burst' = Disturbed
  /\ UNCHANGED <<users, calls, overlap, now, scan>>
  /\ IF ~Exists(id)
     THEN /\ last' = reply(404, "NotFound", {})
          /\ UNCHANGED appointments
     ELSE IF ~Cancellable(appointments[id].status)
     THEN /\ last' = reply(400, "InvalidTransition", {})
          /\ UNCHANGED appointments
     ELSE IF /\ ~isAdmin(actor)
             /\ ~isClient(actor, appointments[id])
             /\ ~isAssignedStaff(actor, appointments[id])
     THEN /\ last' = reply(403, "Forbidden", {})
          /\ UNCHANGED appointments
     ELSE /\ appointments' =
               [appointments EXCEPT
                  ![id].status = "CANCELLED",
                  ![id].description = AppendNote(@, reason),
                  ![id].updated_at = now]
          /\ last' = reply(200, "OK", {})

\* .populate('client').populate('staff'): a reference to a user that is
\* not in the directory is populated with null, and appointment.client._id
\* or appointment.staff._id then throws into the handler's outer catch
populated(appointment) ==
  findUser(appointment.client) # None /\ findUser(appointment.staff) # None

cancelAppointment(actor, id, reason) ==
  LET reply(code, msg, mail) ==
        [Response("cancel", actor, id, code, msg, mail) EXCEPT !.arg = reason]
  IN
  /\ burst' = Disturbed
  /\ UNCHANGED <<users, calls, overlap, now, scan>>
  /\ IF ~Exists(id)
     THEN /\ last' = reply(404, "NotFound", {})
          /\ UNCHANGED appointments
     ELSE IF ~populated(appointments[id])
     THEN /\ last' = reply(500, "ServerError", {})
          /\ UNCHANGED appointments
     ELSE IF /\ ~isAdmin(actor)
             /\ ~isClient(actor, appointments[id])
             /\ ~isAssignedStaff(actor, appointments[id])
     THEN /\ last' = reply(403, "Forbidden", {})
          /\ UNCHANGED appointments
     ELSE IF ~Cancellable(appointments[id].status)
     THEN /\ last' = reply(400, "InvalidTransition", {})
          /\ UNCHANGED appointments
     ELSE LET appointment == appointments[id]
          IN /\ appointments' =
                  [appointments EXCEPT
                     ![id].status = "CANCELLED",
                     ![id].description = AppendNote(@, reason),
                     ![id].updated_at = now]
             /\ last' \in Notify(reply(200, "OK",
                   (IF ~isClient(actor, appointment)
                    THEN {<<"statusChange", appointment.client>>} ELSE {})
                   \cup
                   (IF ~isAssignedStaff(actor, appointment)
                    THEN {<<"staffCancelled", appointment.staff>>} ELSE {})))

\* ------------------------------------------------------------------------
\* PUT /api/appointments/:id/reassign: isAdmin, reassignAppointment

reassignAppointment(actor, id, staffId) ==
  LET reply(code, msg, mail) ==
        [Response("reassign", actor, id, code, msg, mail) EXCEPT !.arg = staffId]
  IN
  /\ burst' = Disturbed
  /\ UNCHANGED <<users, calls, overlap, now, scan>>
  /\ IF ~isAdmin(actor)
     THEN /\ last' = reply(403, "Forbidden", {})
          /\ UNCHANGED appointments
     ELSE IF findUser(staffId) = None
     THEN /\ last' = reply(404, "StaffNotFound", {})
          /\ UNCHANGED appointments
     ELSE IF ~Exists(id)
     THEN /\ last' = reply(404, "NotFound", {})
          /\ UNCHANGED appointments
     ELSE LET previousStaffId == appointments[id].staff
          IN /\ appointments' =
                  [appointments EXCEPT ![id].staff = staffId,
                                       ![id].updated_at = now]
             /\ last' \in Notify(reply(200, "OK",
                   {<<"assignment", staffId>>,
                    <<"clientReassigned", appointments[id].client>>}
                   \cup
                   (IF previousStaffId # staffId /\ findUser(previousStaffId) # None
                    THEN {<<"staffReassigned", previousStaffId>>} ELSE {})))

\* ------------------------------------------------------------------------
\* PUT /api/appointments/:id/status: statusValidator, changeStatus

\* StatusChangeAllowed without the CANCELLED check
StatusChangeAllowed_Always(current, status) == TRUE

\* StatusChangeAllowed that also keeps COMPLETED appointments as they are
StatusChangeAllowed_Strict(current, status) ==
  current \notin {"CANCELLED", "COMPLETED"} \/ status = current

\* "Don't allow changing from CANCELLED to other statuses"
StatusChangeAllowed(current, status) ==
  ~(current = "CANCELLED" /\ status # "CANCELLED")

\* changeStatus that appends the notes and saves before it looks at the
\* current status
changeStatus_NotesFirst(actor, id, status, notes) ==
  LET reply(code, msg, mail) ==
        [Response("changeStatus", actor, id, code, msg, mail) EXCEPT !.arg = status]
  IN
  /\ burst' = Disturbed
  /\ UNCHANGED <<users, calls, overlap, now, scan>>
  /\ IF status \notin validStatuses
     THEN /\ last' = reply(400, "InvalidStatus", {})
          /\ UNCHANGED appointments
     ELSE IF ~Exists(id)
     THEN /\ last' = reply(404, "NotFound", {})
          /\ UNCHANGED appointments
     ELSE IF ~isAdmin(actor) /\ ~isAssignedStaff(actor, appointments[id])
     THEN /\ last' = reply(403, "Forbidden", {})
          /\ UNCHANGED appointments
     ELSE IF ~StatusChangeAllowed(appointments[id].status, status)
     THEN /\ appointments' =
               [appointments EXCEPT
                  ![id].description = AppendNote(@, notes),
                  ![id].updated_at = now]
          /\ last' = reply(400, "InvalidTransition", {})
     ELSE /\ appointments' =
               [appointments EXCEPT
                  ![id].status = status,
                  ![id].description = AppendNote(@, notes),
                  ![id].updated_at = now]
          /\ last' = reply(200, "OK", {<<"statusChange", appointments[id].client>>})

changeStatus(actor, id, status, notes) ==
  LET reply(code, msg, mail) ==
        [Response("changeStatus", actor, id, code, msg, mail) EXCEPT !.arg = status]
  IN
  /\ burst' = Disturbed
  /\ UNCHANGED <<users, calls, overlap, now, scan>>
  /\ IF status \notin validStatuses
     THEN /\ last' = reply(400, "InvalidStatus", {})
          /\ UNCHANGED appointments
     ELSE IF ~Exists(id)
     THEN /\ last' = reply(404, "NotFound", {})
          /\ UNCHANGED appointments
     ELSE IF findUser(actor) = None
     THEN /\ last' = reply(404, "UserNotFound", {})
          /\ UNCHANGED appointments
     ELSE IF ~isAdmin(actor) /\ ~isAssignedStaff(actor, appointments[id])
     THEN /\ last' = reply(403, "Forbidden", {})
          /\ UNCHANGED appointments
     ELSE IF ~StatusChangeAllowed(appointments[id].status, status)
     THEN /\ last' = reply(400, "InvalidTransition", {})
          /\ UNCHANGED appointments
     ELSE /\ appointments' =
               [appointments EXCEPT
                  ![id].status = status,
                  ![id].description = AppendNote(@, notes),
                  ![id].updated_at = now]
          /\ last' \in Notify(reply(200, "OK",
                                     {<<"statusChange", appointments[id].client>>}))

\* ------------------------------------------------------------------------
\* Handler calls that overlap.  A handler awaits its findById, makes its
\* checks on the document it was handed, and awaits its write; the calls of
\* other requests and the steps of the scan run between the two awaits.

Free(slot) == calls[slot].pc \in {"idle", "done"}

InFlight(slot, op) == calls[slot].pc = "write" /\ calls[slot].op = op

\* The call a handler has become once findById has returned
Found(op, actor, id, arg, notes, body) ==
  [pc |-> "write", op |-> op, actor |-> actor, id |-> id, arg |-> arg,
   notes |-> notes, doc |-> appointments[id], body |-> body,
   admin |-> isAdmin(actor)]

\* The call once its response is out
Done(call) == [call EXCEPT !.pc = "done"]

\* cancelAppointment up to its save: the errors are answered at once
cancelFind(slot, actor, id, reason) ==
  /\ Free(slot)
  /\ IF /\ Exists(id)
        /\ populated(appointments[id])
        /\ \/ isAdmin(actor)
           \/ isClient(actor, appointments[id])
           \/ isAssignedStaff(actor, appointments[id])
        /\ Cancellable(appointments[id].status)
     THEN /\ calls' = [calls EXCEPT
                         ![slot] = Found("cancel", actor, id, reason, None, NoBody)]
          /\ last' = [Response("cancelFind", actor, id, 0, None, {})
                        EXCEPT !.arg = reason]
          /\ burst' = Disturbed
          /\ UNCHANGED <<users, overlap, appointments, now, scan>>
     ELSE cancelAppointment(actor, id, reason)

\* cancelSave that leaves a status another call has stored since the read
cancelSave_KeepStored(slot) ==
  /\ InFlight(slot, "cancel")
  /\ LET call == calls[slot]
         id == call.id
     IN /\ appointments' =
             [appointments EXCEPT
                ![id].status = IF @ = call.doc.status THEN "CANCELLED" ELSE @,
                ![id].updated_at = now]
        /\ last' \in Notify([Response("cancel", call.actor, id, 200, "OK", {})
                               EXCEPT !.arg = call.arg])
        /\ calls' = [calls EXCEPT ![slot] = Done(call)]
  /\ burst' = Disturbed
  /\ UNCHANGED <<users, overlap, now, scan>>

\* appointment.save() of cancelAppointment and what follows it: save writes
\* the paths the handler has assigned (status, description when a reason
\* was given, updated_at), with the values computed from the document read
cancelSave(slot) ==
  /\ InFlight(slot, "cancel")
  /\ LET call == calls[slot]
         id == call.id
     IN /\ appointments' =
             [appointments EXCEPT
                ![id].status = "CANCELLED",
                ![id].description = IF call.arg = None THEN @
                                    ELSE AppendNote(call.doc.description, call.arg),
                ![id].updated_at = now]
        /\ last' \in Notify([Response("cancel", call.actor, id, 200, "OK",
                   (IF ~isClient(call.actor, call.doc)
                    THEN {<<"statusChange", call.doc.client>>} ELSE {})
                   \cup
                   (IF ~isAssignedStaff(call.actor, call.doc)
                    THEN {<<"staffCancelled", call.doc.staff>>} ELSE {}))
                               EXCEPT !.arg = call.arg])
        /\ calls' = [calls EXCEPT ![slot] = Done(call)]
  /\ burst' = Disturbed
  /\ UNCHANGED <<users, overlap, now, scan>>

\* changeStatus up to its save
changeStatusFind(slot, actor, id, status, notes) ==
  /\ Free(slot)
  /\ IF /\ status \in validStatuses
        /\ Exists(id)
        /\ findUser(actor) # None
        /\ isAdmin(actor) \/ isAssignedStaff(actor, appointments[id])
        /\ StatusChangeAllowed(appointments[id].status, status)
     THEN /\ calls' = [calls EXCEPT
                         ![slot] = Found("changeStatus", actor, id, status, notes,
                                         NoBody)]
          /\ last' = [Response("changeStatusFind", actor, id, 0, None, {})
                        EXCEPT !.arg = status]
          /\ burst' = Disturbed
          /\ UNCHANGED <<users, overlap, appointments, now, scan>>
     ELSE changeStatus(actor, id, status, notes)

\* changeStatusSave that writes the whole document it read
changeStatusSave_WholeDocument(slot) ==
  /\ InFlight(slot, "changeStatus")
  /\ LET call == calls[slot]
         id == call.id
     IN /\ appointments' =
             [appointments EXCEPT
                ![id] = [call.doc EXCEPT
                           !.status = call.arg,
                           !.description = AppendNote(@, call.notes),
                           !.updated_at = now]]
        /\ last' \in Notify([Response("changeStatus", call.actor, id, 200, "OK",
                                        {<<"statusChange", call.doc.client>>})
                               EXCEPT !.arg = call.arg])
        /\ calls' = [calls EXCEPT ![slot] = Done(call)]
  /\ burst' = Disturbed
  /\ UNCHANGED <<users, overlap, now, scan>>

\* appointment.save() of changeStatus and what follows it
changeStatusSave(slot) ==
  /\ InFlight(slot, "changeStatus")
  /\ LET call == calls[slot]
         id == call.id
     IN /\ appointments' =
             [appointments EXCEPT
                ![id].status = call.arg,
                ![id].description = IF call.notes = None THEN @
                                    ELSE AppendNote(call.doc.description, call.notes),
                ![id].updated_at = now]
        /\ last' \in Notify([Response("changeStatus", call.actor, id, 200, "OK",
                                        {<<"statusChange", call.doc.client>>})
                               EXCEPT !.arg = call.arg])
        /\ calls' = [calls EXCEPT ![slot] = Done(call)]
  /\ burst' = Disturbed
  /\ UNCHANGED <<users, overlap, now, scan>>

\* updateAppointment up to its findByIdAndUpdate
updateFind(slot, actor, id, body) ==
  /\ Free(slot)
  /\ IF /\ updateValidator(body)
        /\ Exists(id)
        /\ findUser(actor) # None
        /\ isAdmin(actor) \/ isAssignedStaff(actor, appointments[id])
     THEN /\ calls' = [calls EXCEPT
                         ![slot] = Found("update", actor, id, None, None, body)]
          /\ last' = [Response("updateFind", actor, id, 0, None, {})
                        EXCEPT !.keys = body.has]
          /\ burst' = Disturbed
          /\ UNCHANGED <<users, overlap, appointments, now, scan>>
     ELSE updateAppointment(actor, id, body)

\* findByIdAndUpdate of updateAppointment and what follows it: the keys of
\* the filtered body are set on the stored document
updateWrite(slot) ==
  /\ InFlight(slot, "update")
  /\ LET call == calls[slot]
         id == call.id
         reply(code, msg, mail) ==
           [Response("update", call.actor, id, code, msg, mail)
              EXCEPT !.keys = call.body.has]
         updated == ApplyUpdates(appointments[id], call.body,
                                 allowedUpdates(call.admin))
     IN /\ IF ~runValidators(call.body, allowedUpdates(call.admin))
           THEN /\ last' = reply(500, "ServerError", {})
                /\ UNCHANGED appointments
           ELSE /\ appointments' = [appointments EXCEPT ![id] = updated]
                /\ last' \in Notify(reply(200, "OK",
                                 IF call.doc.status # updated.status
                                 THEN {<<"statusChange", updated.client>>}
                                 ELSE {}))
        /\ calls' = [calls EXCEPT ![slot] = Done(call)]
  /\ burst' = Disturbed
  /\ UNCHANGED <<users, overlap, now, scan>>

\* ------------------------------------------------------------------------
\* GET /api/appointments: getAllAppointments

DEFAULT_PAGE == 1
DEFAULT_LIMIT == 10

\* roleFilter that shows every caller the appointments it is staff of
roleFilter_Participant(user, appointment) ==
  IF Role(user) = "ADMIN" THEN TRUE
  ELSE appointment.staff = user \/ appointment.client = user

\* "Filter based on user role": regular users by client, AGENT and SUPPORT
\* by staff or client, administrators not at all
roleFilter(user, appointment) ==
  IF Role(user) \notin {"ADMIN", "AGENT", "SUPPORT"}
  THEN appointment.client = user
  ELSE IF Role(user) \in {"AGENT", "SUPPORT"}
  THEN appointment.staff = user \/ appointment.client = user
  ELSE TRUE

\* "Additional filters": each is added to the role filter
additionalFilters(query, appointment) ==
  /\ "status" \in query.has => appointment.status = query.status
  /\ "serviceType" \in query.has => appointment.serviceType = query.serviceType
  /\ "startDate" \in query.has => appointment.startTime >= query.startDate
  /\ "endDate" \in query.has => appointment.startTime <= query.endDate

\* .sort({ startTime: 1 }), documents of one startTime in the order of
\* their ids
RECURSIVE sortByStartTime(_)
sortByStartTime(found) ==
  IF found = {} THEN <<>>
  ELSE LET first ==
             CHOOSE i \in found : \A j \in found :
               \/ appointments[i].startTime < appointments[j].startTime
               \/ /\ appointments[i].startTime = appointments[j].startTime
                  /\ i <= j
       IN <<first>> \o sortByStartTime(found \ {first})

\* .skip(skip).limit(limit)
skipLimit(sorted, skip, limit) ==
  SubSeq(sorted, skip + 1,
         IF skip + limit < Len(sorted) THEN skip + limit ELSE Len(sorted))

getAllAppointments(actor, query) ==
  LET user == findUser(actor)
      page == IF query.page = 0 THEN DEFAULT_PAGE ELSE query.page
      limit == IF query.limit = 0 THEN DEFAULT_LIMIT ELSE query.limit
      skip == (page - 1) * limit
      found == {id \in 1..Len(appointments) :
                  /\ roleFilter(user, appointments[id])
                  /\ additionalFilters(query, appointments[id])}
      reply(code, msg) ==
        [Response("list", actor, NoId, code, msg, {}) EXCEPT !.query = query]
  IN
  /\ UNCHANGED <<users, calls, overlap, appointments, now, scan, burst>>
  /\ IF user = None
     THEN last' = reply(404, "UserNotFound")
     ELSE last' = [reply(200, "OK") EXCEPT
                     !.result = [appointments |->
                                   skipLimit(sortByStartTime(found), skip, limit),
                                 total |-> Cardinality(found)]]

\* ------------------------------------------------------------------------
\* services/AppointmentScheduler.js: sendAppointmentReminders

\* QueryMatches without the status condition
QueryMatches_AnyStatus(appointment, t) ==
  /\ \E i \in 1..Len(appointment.reminders) : appointment.reminders[i].time <= t
  /\ \E i \in 1..Len(appointment.reminders) : appointment.reminders[i].sent = FALSE

\* Appointment.find({ status: { $in: [...] }, 'reminders.time': { $lte: now },
\* 'reminders.sent': false }): each array condition is met by some element
QueryMatches(appointment, t) ==
  /\ appointment.status \in {"SCHEDULED", "RESCHEDULED"}
  /\ \E i \in 1..Len(appointment.reminders) : appointment.reminders[i].time <= t
  /\ \E i \in 1..Len(appointment.reminders) : appointment.reminders[i].sent = FALSE

\* DueUnsent that does not look at the sent flag
DueUnsent_IgnoresSent(reminder, t) == reminder.time <= t

\* reminder => !reminder.sent && reminder.time <= now
DueUnsent(reminder, t) == ~reminder.sent /\ reminder.time <= t

\* The positions of appointment.reminders.filter(...), in order
unsentReminders(appointment, t) ==
  SelectSeq([i \in 1..Len(appointment.reminders) |-> i],
            LAMBDA i : DueUnsent(appointment.reminders[i], t))

timeframeText(startTime, reminderTime) ==
  LET timeUntilAppointment == startTime - reminderTime
  IN IF timeUntilAppointment >= TIMEFRAME_DAY THEN "1 day"
     ELSE IF timeUntilAppointment >= TIMEFRAME_HOUR THEN "1 hour"
     ELSE "soon"

\* RemindersOf that takes the due unsent reminders of every document
RemindersOf_EveryDocument(id, t) ==
  LET appointment == appointments[id]
      due == unsentReminders(appointment, t)
  IN [k \in 1..Len(due) |->
        [id |-> id, idx |-> due[k],
         timeframe |-> timeframeText(appointment.startTime,
                                     appointment.reminders[due[k]].time)]]

\* The reminders one scan works through, from the documents the query
\* returned: the two nested for loops, flattened
RemindersOf(id, t) ==
  LET appointment == appointments[id]
      due == unsentReminders(appointment, t)
  IN IF QueryMatches(appointment, t)
     THEN [k \in 1..Len(due) |->
             [id |-> id, idx |-> due[k],
              timeframe |-> timeframeText(appointment.startTime,
                                          appointment.reminders[due[k]].time)]]
     ELSE <<>>

RECURSIVE appointmentsToRemind(_, _)
appointmentsToRemind(id, t) ==
  IF id > Len(appointments) THEN <<>>
  ELSE RemindersOf(id, t) \o appointmentsToRemind(id + 1, t)

ItemsIn(items) == {<<items[k].id, items[k].idx>> : k \in 1..Len(items)}

\* The scan starts: now is read and the query runs
ScanStart ==
  /\ scan.pc = "idle"
  /\ LET items == appointmentsToRemind(1, now)
         first == burst.runs # 1
         due == IF first THEN ItemsIn(items) ELSE burst.due
         count == IF first THEN NoBurst.count ELSE burst.count
         runs == IF first THEN 0 ELSE 1
     IN /\ scan' = IF items = <<>> THEN IdleScan
                   ELSE [pc |-> "send", items |-> items, outcome |-> None,
                         unsaved |-> {}]
        /\ burst' = IF items = <<>>
                    THEN [runs |-> runs + 1, live |-> FALSE, due |-> due, count |-> count]
                    ELSE [runs |-> runs, live |-> TRUE, due |-> due, count |-> count]
  /\ last' = Response("scanStart", None, NoId, 0, None, {})
  /\ UNCHANGED <<users, calls, overlap, appointments, now>>

\* ScanDispatch that marks the reminder sent and saves before the mail is
\* handed to EmailService
ScanDispatch_MarkFirst ==
  /\ scan.pc = "send"
  /\ LET item == Head(scan.items)
     IN /\ appointments' =
             [appointments EXCEPT ![item.id].reminders[item.idx].sent = TRUE]
        /\ scan' = [scan EXCEPT !.pc = "mark", !.outcome = "delivered"]
        /\ last' = [Response("scanDispatch", None, item.id, 0, "delivered", {})
                      EXCEPT !.item = <<item.id, item.idx>>]
  /\ UNCHANGED <<users, calls, overlap, now, burst>>

\* await EmailService.sendAppointmentReminder(appointment, client, timeframeText)
ScanDispatch ==
  /\ scan.pc = "send"
  /\ LET item == Head(scan.items)
         key == <<item.id, item.idx>>
     IN \E outcome \in sendEmailResults :
          /\ scan' = [scan EXCEPT !.pc = "mark", !.outcome = outcome]
          /\ burst' = IF burst.live
                      THEN [burst EXCEPT !.count[key] = IF @ < 2 THEN @ + 1 ELSE @]
                      ELSE burst
          /\ last' = [Response("scanDispatch", None, item.id, 0, outcome,
                               {<<"reminder " \o item.timeframe,
                                  appointments[item.id].client>>})
                        EXCEPT !.item = key]
  /\ UNCHANGED <<users, calls, overlap, appointments, now>>

\* MarkSent that marks every reminder of the appointment
MarkSent_All(appointment, idx) ==
  [appointment EXCEPT
     !.reminders = [i \in 1..Len(@) |-> [@[i] EXCEPT !.sent = TRUE]]]

\* appointment.reminders[reminderIndex].sent = true; appointment.save():
\* save writes the modified path of the document only
MarkSent(appointment, idx) ==
  IF idx \in 1..Len(appointment.reminders)
  THEN [appointment EXCEPT !.reminders[idx].sent = TRUE]
  ELSE appointment

\* The modified paths one save writes: the marks on the document that no
\* earlier save has written
SaveMarks(appointment, idxs) ==
  [appointment EXCEPT
     !.reminders = [i \in 1..Len(@) |->
                      IF i \in idxs THEN [@[i] EXCEPT !.sent = TRUE] ELSE @[i]]]

unsavedOf(id) == {idx \in 1..2 : <<id, idx>> \in scan.unsaved}

ScanMark ==
  /\ scan.pc = "mark"
  /\ LET item == Head(scan.items)
         rest == Tail(scan.items)
     IN /\ appointments' =
             [appointments EXCEPT
                ![item.id] = SaveMarks(MarkSent(@, item.idx), unsavedOf(item.id))]
        /\ scan' = IF rest = <<>> THEN IdleScan
                   ELSE [pc |-> "send", items |-> rest, outcome |-> None,
                         unsaved |-> {key \in scan.unsaved : key[1] # item.id}]
        /\ burst' = IF rest = <<>> /\ burst.live
                    THEN [burst EXCEPT !.runs = @ + 1, !.live = FALSE]
                    ELSE burst
        /\ last' = [Response("scanMark", None, item.id, 0, scan.outcome, {})
                      EXCEPT !.item = <<item.id, item.idx>>]
  /\ UNCHANGED <<users, calls, overlap, now>>

\* ScanSaveFails that lets the error end the scan
ScanSaveFails_Abort ==
  /\ scan.pc = "mark"
  /\ LET item == Head(scan.items)
     IN last' = [Response("scanSaveFailed", None, item.id, 0, scan.outcome, {})
                   EXCEPT !.item = <<item.id, item.idx>>]
  /\ scan' = IdleScan
  /\ burst' = Disturbed
  /\ UNCHANGED <<users, calls, overlap, appointments, now>>

\* appointment.save() rejects: catch (error) { console.error(...) } of the
\* inner try, and the for loops go on; the mark stays on the document the
\* scan holds
ScanSaveFails ==
  /\ scan.pc = "mark"
  /\ LET item == Head(scan.items)
         rest == Tail(scan.items)
     IN /\ scan' = IF rest = <<>> THEN IdleScan
                   ELSE [pc |-> "send", items |-> rest, outcome |-> None,
                         unsaved |-> scan.unsaved \cup {<<item.id, item.idx>>}]
        /\ last' = [Response("scanSaveFailed", None, item.id, 0, scan.outcome, {})
                      EXCEPT !.item = <<item.id, item.idx>>]
  /\ burst' = Disturbed
  /\ UNCHANGED <<users, calls, overlap, appointments, now>>

\* The server process stops in the middle of a scan and is started again
Restart ==
  /\ scan.pc # "idle"
  /\ scan' = IdleScan
  /\ overlap' = IdleScan
  /\ calls' = [slot \in Slots |-> IdleCall]
  /\ burst' = Disturbed
  /\ last' = Response("restart", None, NoId, 0, None, {})
  /\ UNCHANGED <<users, appointments, now>>

\* ------------------------------------------------------------------------
\* A second sendAppointmentReminders call, started by the timer while the
\* call before it is still running: nothing in the server keeps the two
\* apart

HeadKey(running) == <<Head(running.items).id, Head(running.items).idx>>

OverlapStart ==
  /\ scan.pc # "idle"
  /\ overlap.pc = "idle"
  /\ LET items == appointmentsToRemind(1, now)
     IN overlap' = IF items = <<>> THEN IdleScan
                   ELSE [pc |-> "send", items |-> items, outcome |-> None,
                         unsaved |-> {}]
  /\ burst' = Disturbed
  /\ last' = Response("overlapStart", None, NoId, 0, None, {})
  /\ UNCHANGED <<users, calls, appointments, now, scan>>

OverlapDispatch ==
  /\ overlap.pc = "send"
  /\ LET item == Head(overlap.items)
     IN \E outcome \in sendEmailResults :
          /\ overlap' = [overlap EXCEPT !.pc = "mark", !.outcome = outcome]
          /\ last' = [Response("overlapDispatch", None, item.id, 0, outcome,
                               {<<"reminder " \o item.timeframe,
                                  appointments[item.id].client>>})
                        EXCEPT !.item = HeadKey(overlap)]
  /\ burst' = Disturbed
  /\ UNCHANGED <<users, calls, appointments, now, scan>>

\* OverlapMark that leaves the reminder in the list of the call
OverlapMark_KeepsHead ==
  /\ overlap.pc = "mark"
  /\ LET item == Head(overlap.items)
     IN /\ appointments' =
             [appointments EXCEPT ![item.id] = MarkSent(@, item.idx)]
        /\ overlap' = [overlap EXCEPT !.pc = "send", !.outcome = None]
        /\ last' = [Response("overlapMark", None, item.id, 0, overlap.outcome, {})
                      EXCEPT !.item = HeadKey(overlap)]
  /\ burst' = Disturbed
  /\ UNCHANGED <<users, calls, now, scan>>

OverlapMark ==
  /\ overlap.pc = "mark"
  /\ LET item == Head(overlap.items)
         rest == Tail(overlap.items)
     IN /\ appointments' =
             [appointments EXCEPT ![item.id] = MarkSent(@, item.idx)]
        /\ overlap' = IF rest = <<>> THEN IdleScan
                      ELSE [pc |-> "send", items |-> rest, outcome |-> None,
                            unsaved |-> {}]
        /\ last' = [Response("overlapMark", None, item.id, 0, overlap.outcome, {})
                      EXCEPT !.item = HeadKey(overlap)]
  /\ burst' = Disturbed
  /\ UNCHANGED <<users, calls, now, scan>>

\* ------------------------------------------------------------------------
\* The calls made on the handlers.  Each specification below draws the
\* callers and the request bodies from the sets it names.

Callers == {"admin", "agent", "client"} \cap users

Staffs == {"admin", "agent"}

Reasons == {None, "Cancellation reason"}

Notes == {None, "Status change notes"}

NoReminders == <<>>

\* Bodies of one key each: a status
StatusBodies(Statuses) ==
  {Body({"status"}, st, None, 0, 0, NoReminders) : st \in Statuses}

\* a staff member
StaffBodies(StaffIds) ==
  {Body({"staff"}, None, u, 0, 0, NoReminders) : u \in StaffIds}

SetFlags(reminders, flag) ==
  [i \in 1..Len(reminders) |-> [reminders[i] EXCEPT !.sent = flag]]

\* the stored reminders sent back with their flags set to one of Flags
ReminderBodies(id, Flags) ==
  IF Exists(id)
  THEN {Body({"reminders"}, None, None, 0, 0,
             SetFlags(appointments[id].reminders, flag)) : flag \in Flags}
  ELSE {}

\* Bodies that carry startTime alone, endTime alone, or both
TimeBodies(Times) ==
  {Body({"startTime"}, None, None, t, 0, NoReminders) : t \in Times}
    \cup {Body({"endTime"}, None, None, 0, t, NoReminders) : t \in Times}
    \cup {Body({"startTime", "endTime"}, None, None, t[1], t[2], NoReminders) :
            t \in Times \X Times}

UpdateTimesOf(Actors, Times) ==
  \E actor \in Actors, id \in Ids :
    \E body \in TimeBodies(Times) :
      updateAppointment(actor, id, body)

\* Bodies that carry client, serviceType and serviceId
IdentityBodies ==
  {[Body({"client", "serviceType", "serviceId"}, None, None, 0, 0, NoReminders)
      EXCEPT !.client = "agent", !.serviceType = "TAX", !.serviceId = "other"]}

UpdateIdentityOf(Actors) ==
  \E actor \in Actors, id \in Ids :
    \E body \in IdentityBodies :
      updateAppointment(actor, id, body)

UpdateOf(Actors, Statuses, StaffIds, Flags) ==
  \E actor \in Actors, id \in Ids :
    \E body \in StatusBodies(Statuses) \cup StaffBodies(StaffIds)
                  \cup ReminderBodies(id, Flags) :
      updateAppointment(actor, id, body)

CancelOf(Actors, Texts) ==
  \E actor \in Actors, id \in Ids, reason \in Texts :
    /\ NoteFits(id, reason)
    /\ cancelAppointment(actor, id, reason)

ReassignOf(Actors, StaffIds) ==
  \E actor \in Actors, id \in Ids, staffId \in StaffIds :
    reassignAppointment(actor, id, staffId)

ChangeStatusOf(Actors, Statuses, Texts) ==
  \E actor \in Actors, id \in Ids, status \in Statuses, notes \in Texts :
    /\ NoteFits(id, notes)
    /\ changeStatus(actor, id, status, notes)

\* Calls that overlap, in the slots of SlotSet
CancelFindOf(SlotSet, Actors, Texts) ==
  \E slot \in SlotSet, actor \in Actors, id \in Ids, reason \in Texts :
    /\ NoteFits(id, reason)
    /\ cancelFind(slot, actor, id, reason)

CancelSaveOf(SlotSet) == \E slot \in SlotSet : cancelSave(slot)

ChangeStatusFindOf(SlotSet, Actors, Statuses, Texts) ==
  \E slot \in SlotSet, actor \in Actors, id \in Ids :
    \E status \in Statuses, notes \in Texts :
      /\ NoteFits(id, notes)
      /\ changeStatusFind(slot, actor, id, status, notes)

ChangeStatusSaveOf(SlotSet) == \E slot \in SlotSet : changeStatusSave(slot)

\* Bodies that move the appointment to one of the <<startTime, endTime>>
\* of Pairs
RescheduleBodies(Pairs) ==
  {Body({"startTime", "endTime"}, None, None, t[1], t[2], NoReminders) :
     t \in Pairs}

UpdateRescheduleFindOf(SlotSet, Actors, Pairs) ==
  \E slot \in SlotSet, actor \in Actors, id \in Ids :
    \E body \in RescheduleBodies(Pairs) :
      updateFind(slot, actor, id, body)

UpdateFindOf(SlotSet, Actors, Statuses, StaffIds, Flags) ==
  \E slot \in SlotSet, actor \in Actors, id \in Ids :
    \E body \in StatusBodies(Statuses) \cup StaffBodies(StaffIds)
                  \cup ReminderBodies(id, Flags) :
      updateFind(slot, actor, id, body)

UpdateWriteOf(SlotSet) == \E slot \in SlotSet : updateWrite(slot)

\* ------------------------------------------------------------------------
\* The lifecycle handlers, called by client, agent and administrator

MainKinds == {<<"VISA", "svc">>, <<"OTHER", None>>}

Request == RequestOf({"client"}, MainKinds, MoreTimePairs)

Update == UpdateOf(Callers, validStatuses, Staffs \cap users, {})

Cancel == CancelOf(Callers, Reasons)

Reassign == ReassignOf(Callers, Staffs \cup {"nobody"})

ChangeStatus == ChangeStatusOf(Callers, validStatuses \cup {"BOGUS"}, Notes)

NextLifecycle ==
  \/ Tick
  \/ Request
  \/ Update
  \/ Cancel
  \/ Reassign
  \/ ChangeStatus

SpecLifecycle == Init /\ [][NextLifecycle]_vars

\* ------------------------------------------------------------------------
\* The reminder scan, with the handler calls that decide what it finds

RequestOther == RequestOf({"client"}, {<<"OTHER", None>>}, MoreTimePairs)

UpdateReminders == UpdateOf(Staffs \cap users, {}, {}, BOOLEAN)

CancelByClient == CancelOf({"client"}, {None})

NextScan ==
  \/ Tick
  \/ RequestOther
  \/ UpdateReminders
  \/ CancelByClient
  \/ ScanStart
  \/ ScanDispatch
  \/ ScanMark
  \/ Restart

SpecScan == Init /\ [][NextScan]_vars

\* ------------------------------------------------------------------------
\* The reminder scan over a database whose writes can fail

NextScanFaulty ==
  \/ Tick
  \/ RequestOther
  \/ CancelByClient
  \/ ScanStart
  \/ ScanDispatch
  \/ ScanMark
  \/ ScanSaveFails
  \/ Restart

SpecScanFaulty == Init /\ [][NextScanFaulty]_vars

\* ------------------------------------------------------------------------
\* Two handler calls at the same time, and reassignments between the read
\* and the write of a call

RequestVisa == RequestOf({"client"}, {<<"VISA", "svc">>}, {<<now + 1, now + 2>>})

CancelFind == CancelFindOf({"one"}, {"client"}, {None})

CancelSave == CancelSaveOf(Slots)

ChangeStatusFind ==
  ChangeStatusFindOf(Slots, Staffs \cap users, {"COMPLETED", "SCHEDULED"}, {None})

ChangeStatusSave == ChangeStatusSaveOf(Slots)

UpdateRescheduleFind ==
  UpdateRescheduleFindOf({"two"}, {"agent", "client"}, {<<now + 2, now + 3>>})

UpdateWrite == UpdateWriteOf(Slots)

ReassignStaff == ReassignOf({"admin"} \cap users, Staffs)

NextRace ==
  \/ RequestVisa
  \/ CancelFind
  \/ CancelSave
  \/ ChangeStatusFind
  \/ ChangeStatusSave
  \/ UpdateRescheduleFind
  \/ UpdateWrite
  \/ ReassignStaff

SpecRace == Init /\ [][NextRace]_vars

\* ------------------------------------------------------------------------
\* A handler call at the same time as the reminder scan

CancelFindOne == CancelFindOf({"one"}, {"client"}, Reasons)

ChangeStatusFindOne ==
  ChangeStatusFindOf({"one"}, {"agent"}, {"COMPLETED", "RESCHEDULED"}, Notes)

UpdateFindOne ==
  UpdateFindOf({"one"}, {"agent"}, {"RESCHEDULED"}, {}, {FALSE})

NextRaceScan ==
  \/ RequestVisa
  \/ CancelFindOne
  \/ CancelSave
  \/ ChangeStatusFindOne
  \/ ChangeStatusSave
  \/ UpdateFindOne
  \/ UpdateWrite
  \/ ReassignStaff
  \/ ScanStart
  \/ ScanDispatch
  \/ ScanMark

SpecRaceScan == Init /\ [][NextRaceScan]_vars

\* ------------------------------------------------------------------------
\* The reminder scan as the server schedules it: a scan at the start of
\* the process and one at every interval that follows, each running to its
\* end, and a mail service that is not down for ever

\* transporter.sendMail resolves for the mail of the reminder
Delivers(key) ==
  /\ ScanDispatch
  /\ scan'.outcome = "delivered"
  /\ HeadKey(scan) = key

NextFair ==
  \/ Tick
  \/ RequestOther
  \/ CancelByClient
  \/ ScanStart
  \/ ScanDispatch
  \/ ScanMark
  \/ Restart

SpecFair ==
  /\ Init
  /\ [][NextFair]_vars
  /\ WF_vars(ScanStart)
  /\ \A key \in ItemSet : SF_vars(Delivers(key))
  /\ SF_vars(ScanMark)

\* ------------------------------------------------------------------------
\* Two calls of the reminder scan at the same time

NextOverlap ==
  \/ Tick
  \/ RequestOther
  \/ ScanStart
  \/ ScanDispatch
  \/ ScanMark
  \/ OverlapStart
  \/ OverlapDispatch
  \/ OverlapMark
  \/ Restart

SpecOverlap == Init /\ [][NextOverlap]_vars

\* ------------------------------------------------------------------------
\* Handlers and scan together

UpdateLean == UpdateOf(Callers, {"SCHEDULED"}, (Staffs \cap users) \cup {None}, {TRUE})

CancelLean == CancelOf(Callers, {None})

ReassignLean == ReassignOf({"admin"} \cap users, {"agent", "nobody"})

ChangeStatusLean == ChangeStatusOf(Staffs \cap users, {"COMPLETED"}, {None})

UpdateIdentity == UpdateIdentityOf(Callers)

Next ==
  \/ Tick
  \/ Request
  \/ UpdateLean
  \/ UpdateIdentity
  \/ CancelLean
  \/ ReassignLean
  \/ ChangeStatusLean
  \/ ScanStart
  \/ ScanDispatch
  \/ ScanMark
  \/ Restart

Spec == Init /\ [][Next]_vars

\* ------------------------------------------------------------------------
\* Requests alone, by two users and for every service type

\* ------------------------------------------------------------------------
\* Reassignment, with staff references an administrator's update has set to
\* an id that names no user

UpdateStaff == UpdateOf({"admin"} \cap users, {}, Staffs \cup {"nobody"}, {})

NextReassign ==
  \/ Tick
  \/ Request
  \/ UpdateStaff
  \/ Reassign
  \/ CancelLean

SpecReassign == Init /\ [][NextReassign]_vars

\* ------------------------------------------------------------------------
\* Rescheduling through the generic update

UpdateTimes == UpdateTimesOf(Callers, now..(now + 2))

NextUpdate ==
  \/ Tick
  \/ Request
  \/ UpdateTimes
  \/ UpdateLean

SpecUpdate == Init /\ [][NextUpdate]_vars

NextRequest ==
  \/ Tick
  \/ RequestAny

SpecRequest == Init /\ [][NextRequest]_vars

\* ------------------------------------------------------------------------
\* Listings, by the four users, of appointments whose staff is the agent,
\* the owner of a property or the administrator

\* The queries of a listing: every choice of filters, the first page or the
\* second, the default page size or one document a page
Queries ==
  {[has |-> has, status |-> "SCHEDULED", serviceType |-> "REAL_ESTATE",
    startDate |-> now + 1, endDate |-> now + 1,
    page |-> paging[1], limit |-> paging[2]] :
     has \in SUBSET {"status", "serviceType", "startDate", "endDate"},
     paging \in {<<0, 0>>, <<2, 1>>}}

List ==
  \E actor \in AllUsers, query \in Queries :
    getAllAppointments(actor, query)

RequestListed ==
  RequestOf({"client", "agent"},
            {<<"REAL_ESTATE", "svc">>, <<"OTHER", None>>}, TimePairs)

NextList ==
  \/ Tick
  \/ RequestListed
  \/ ReassignLean
  \/ CancelLean
  \/ List

SpecList == Init /\ [][NextList]_vars

\* ========================================================================
\* Properties

LastAppointment == appointments[last.id]

\* The staff the resolution rules name for a request: the agent of a
\* property, else its owner; the agent of a policy or visa application, the
\* tax professional of a tax case; the administrator in every other case
ExpectedStaff(lookup) ==
  LET named ==
        IF lookup.serviceId = None THEN None
        ELSE CASE lookup.serviceType = "REAL_ESTATE" ->
                    IF lookup.record.agent # None THEN lookup.record.agent
                    ELSE lookup.record.owner
               [] lookup.serviceType = "INSURANCE" -> lookup.record.agent
               [] lookup.serviceType = "VISA" -> lookup.record.agent
               [] lookup.serviceType = "TAX" -> lookup.record.taxProfessional
               [] OTHER -> None
  IN IF named = None THEN "admin" ELSE named

\* The request names a catalog record that does not exist
ReferenceMissing(lookup) ==
  /\ lookup.serviceId # None
  /\ lookup.serviceType \in {"REAL_ESTATE", "INSURANCE", "VISA", "TAX"}
  /\ ~lookup.record.exists

\* C1: a valid request with a resolvable staff is answered 201 and adds
\* exactly one appointment: SCHEDULED, the caller as client, two unsent
\* reminders 24 hours and 1 hour before startTime
C1_RequestCreatesScheduled ==
  [][ last'.op = "request" =>
        /\ ( /\ last'.lookup.startTime > now
             /\ last'.lookup.endTime > last'.lookup.startTime
             /\ ~ReferenceMissing(last'.lookup)
             /\ ExpectedStaff(last'.lookup) \in users )
           => last'.code = 201
        /\ last'.code = 201 =>
             /\ Len(appointments') = Len(appointments) + 1
             /\ SubSeq(appointments', 1, Len(appointments)) = appointments
             /\ last'.id = Len(appointments')
             /\ LET a == appointments'[last'.id]
                IN /\ a.status = "SCHEDULED"
                   /\ a.client = last'.actor
                   /\ a.startTime = last'.lookup.startTime
                   /\ a.endTime > a.startTime
                   /\ a.reminders =
                        << [time |-> a.startTime - 24, sent |-> FALSE],
                           [time |-> a.startTime - 1, sent |-> FALSE] >>
    ]_vars

C1_Witness ==
  /\ last.op = "request"
  /\ last.code = 201
  /\ LastAppointment.client = "agent"
  /\ LastAppointment.reminders[2].time = last.lookup.startTime - 1

C3_FailedDispatchLeavesUnsent ==
  (last.op = "scanMark" /\ last.msg = "failed")
    => ~appointments[last.item[1]].reminders[last.item[2]].sent

\* C4: over two scans run back to back no reminder is dispatched twice, and
\* after the second every reminder that was due and unsent when the first
\* started has been dispatched exactly once
C4_ScanIdempotent ==
  /\ \A key \in ItemSet : burst.count[key] <= 1
  /\ burst.runs = 2 => \A key \in burst.due : burst.count[key] = 1

C4_Witness ==
  /\ burst.runs = 2
  /\ burst.due # {}
  /\ scan.pc = "idle"

\* C5 as stated: whenever a sent flag turns true, the dispatch of that
\* reminder has returned
C5_SentOnlyAfterDispatch ==
  [][ \A id \in 1..Len(appointments) :
        \A i \in 1..Len(appointments[id].reminders) :
          ( /\ Len(appointments') >= id
            /\ Len(appointments'[id].reminders) >= i
            /\ ~appointments[id].reminders[i].sent
            /\ appointments'[id].reminders[i].sent )
          => /\ scan.pc = "mark"
             /\ scan.outcome \in {"delivered", "failed"}
             /\ Head(scan.items).id = id
             /\ Head(scan.items).idx = i
    ]_vars

\* C5 amended: whenever a step other than updateAppointment turns a sent
\* flag true, it is the scan's, taken after the dispatch of that reminder
\* has returned
C5_ScanMarksAfterDispatch ==
  [][ \A id \in 1..Len(appointments) :
        \A i \in 1..Len(appointments[id].reminders) :
          ( /\ Len(appointments') >= id
            /\ Len(appointments'[id].reminders) >= i
            /\ ~appointments[id].reminders[i].sent
            /\ appointments'[id].reminders[i].sent
            /\ last'.op # "update" )
          => /\ last'.op = "scanMark"
             /\ scan.pc = "mark"
             /\ scan.outcome \in {"delivered", "failed"}
             /\ Head(scan.items).id = id
             /\ Head(scan.items).idx = i
    ]_vars

C5_Witness ==
  /\ last.op = "scanMark"
  /\ appointments[last.item[1]].reminders[last.item[2]].sent

\* The transition relation of C6
C6_Relation ==
  {"SCHEDULED", "RESCHEDULED"} \X {"COMPLETED", "CANCELLED", "RESCHEDULED"}

\* C6 as stated: every status change by changeStatus lies in the relation
C6_ChangeStatusInRelation ==
  [][ (last'.op = "changeStatus" /\ last'.code = 200)
      => <<appointments[last'.id].status, appointments'[last'.id].status>>
           \in C6_Relation ]_vars

\* C6 amended: changeStatus by the assigned staff or an administrator sets
\* any of the four statuses on an appointment that is not CANCELLED, and
\* on a CANCELLED one only CANCELLED
C6_ChangeStatusExceptFromCancelled ==
  [][ (last'.op = "changeStatus" /\ Exists(last'.id))
      => LET a == appointments[last'.id]
             permitted == Role(last'.actor) = "ADMIN" \/ a.staff = last'.actor
         IN /\ last'.code = 200 =>
                 /\ permitted
                 /\ last'.arg \in validStatuses
                 /\ appointments'[last'.id].status = last'.arg
                 /\ a.status # "CANCELLED" \/ last'.arg = "CANCELLED"
            /\ ( /\ permitted
                 /\ last'.arg \in validStatuses
                 /\ a.status # "CANCELLED" )
               => last'.code = 200
    ]_vars

C6_Witness ==
  /\ last.op = "changeStatus"
  /\ last.code = 200
  /\ last.arg = "SCHEDULED"
  /\ LastAppointment.status = "SCHEDULED"

C8_StaffResolution ==
  [][ (last'.op = "request" /\ last'.code = 201)
      => appointments'[last'.id].staff = ExpectedStaff(last'.lookup) ]_vars

C8_Witness ==
  /\ last.op = "request"
  /\ last.code = 201
  /\ last.lookup.serviceType = "VISA"
  /\ last.lookup.record.agent = "agent"
  /\ LastAppointment.staff = "agent"
  /\ LastAppointment.status = "SCHEDULED"

\* C9: every stored appointment names a staff member
C9_StaffNeverEmpty ==
  \A id \in 1..Len(appointments) : appointments[id].staff # None

C9_Witness ==
  /\ last.op = "update"
  /\ last.code = 200
  /\ LastAppointment.staff = "agent"
  /\ LastAppointment.reminders[1].sent

\* C10: a request whose staff resolution fails is answered with an error,
\* stores nothing and notifies nobody
C10_FailedResolutionStoresNothing ==
  [][ ( /\ last'.op = "request"
        /\ \/ ReferenceMissing(last'.lookup)
           \/ ExpectedStaff(last'.lookup) \notin users )
      => /\ last'.code \in {400, 404}
         /\ appointments' = appointments
         /\ last'.mail = {}
    ]_vars

C10_Witness ==
  /\ last.op = "request"
  /\ last.code = 404
  /\ last.msg = "NoAdminAvailable"
  /\ appointments = <<>>

\* The reminders that are due and unsent at time t on an appointment that
\* is SCHEDULED or RESCHEDULED
EligibleAt(t) ==
  {key \in ItemSet :
     /\ Exists(key[1])
     /\ appointments[key[1]].status \in {"SCHEDULED", "RESCHEDULED"}
     /\ key[2] <= Len(appointments[key[1]].reminders)
     /\ ~appointments[key[1]].reminders[key[2]].sent
     /\ appointments[key[1]].reminders[key[2]].time <= t}

\* C11: the reminders a scan sets out to dispatch are exactly those that are
\* unsent and due (fireTime <= now) on a SCHEDULED or RESCHEDULED appointment
\* when it starts; while no handler has run since the start each dispatch is
\* of such a reminder, and a scan that ran undisturbed has dispatched each
\* of them once and no other reminder
C11_ScanDispatchesEligibleOnly ==
  [][ /\ last'.op = "scanStart" => ItemsIn(scan'.items) = EligibleAt(now)
      /\ (last'.op = "scanDispatch" /\ burst.live)
           => /\ last'.item \in EligibleAt(now)
              /\ last'.item \in ItemsIn(scan.items)
      /\ (burst'.runs = 1 /\ ~burst'.live)
           => \A key \in ItemSet :
                burst'.count[key] = IF key \in burst'.due THEN 1 ELSE 0
    ]_vars

C11_Witness ==
  /\ last.op = "scanDispatch"
  /\ burst.live
  /\ appointments[last.item[1]].reminders[last.item[2]].time = now
  /\ \E i \in 1..2 : appointments[last.item[1]].reminders[i].sent

\* C12 as stated: a sent flag changes only from false to true and only in
\* the reminder scan
C12_SentChangedOnlyByScan ==
  [][ \A id \in 1..Len(appointments) :
        \A i \in 1..Len(appointments[id].reminders) :
          ( /\ i <= Len(appointments'[id].reminders)
            /\ appointments'[id].reminders[i].sent
                 # appointments[id].reminders[i].sent )
          => /\ ~appointments[id].reminders[i].sent
             /\ last'.op = "scanMark"
    ]_vars

\* C12 amended: request, cancel, reassign and changeStatus leave the
\* reminders of every stored appointment as they are; the scan changes
\* nothing but the flag of the reminder it has just dispatched, from false
\* to true; only updateAppointment changes reminders otherwise
C12_SentChangedByScanOrUpdate ==
  [][ \A id \in 1..Len(appointments) :
        \/ last'.op = "update"
        \/ appointments'[id].reminders = appointments[id].reminders
        \/ /\ last'.op = "scanMark"
           /\ last'.item[1] = id
           /\ Len(appointments'[id].reminders) = Len(appointments[id].reminders)
           /\ \A i \in 1..Len(appointments[id].reminders) :
                IF i = last'.item[2]
                THEN appointments'[id].reminders[i] =
                       [appointments[id].reminders[i] EXCEPT !.sent = TRUE]
                ELSE appointments'[id].reminders[i] = appointments[id].reminders[i]
    ]_vars

C12_Witness ==
  /\ last.op = "scanMark"
  /\ appointments[last.item[1]].reminders[last.item[2]].sent
  /\ \E i \in 1..2 : ~appointments[last.item[1]].reminders[i].sent

\* C13 as stated: the client of a SCHEDULED appointment can update it
C13_ClientUpdatesScheduled ==
  [][ ( /\ last'.op = "update"
        /\ Exists(last'.id)
        /\ appointments[last'.id].client = last'.actor
        /\ appointments[last'.id].status = "SCHEDULED" )
      => last'.code = 200 ]_vars

\* C13 amended: update succeeds for the assigned staff and for an
\* administrator and for nobody else; every other caller, the client
\* included, is answered Forbidden and nothing changes; only an
\* administrator's update changes the staff
C13_UpdateByStaffOrAdmin ==
  [][ (last'.op = "update" /\ Exists(last'.id) /\ last'.code # 400)
      => LET a == appointments[last'.id]
             permitted == Role(last'.actor) = "ADMIN" \/ a.staff = last'.actor
         IN /\ permitted => last'.code = 200
            /\ ~permitted => /\ last'.code = 403
                             /\ last'.msg = "Forbidden"
                             /\ appointments' = appointments
            /\ appointments'[last'.id].staff # a.staff
                 => Role(last'.actor) = "ADMIN"
    ]_vars

C13_Witness ==
  /\ last.op = "update"
  /\ last.actor = "client"
  /\ last.code = 403
  /\ LastAppointment.client = "client"
  /\ LastAppointment.status = "SCHEDULED"

C15_ErrorsChangeNothing ==
  [][ ( /\ last'.op \in {"request", "update", "cancel", "reassign", "changeStatus"}
        /\ last'.code \in {400, 403, 404} )
      => /\ appointments' = appointments
         /\ last'.mail = {}
         /\ last'.notifier = None
    ]_vars

C15_Witness ==
  /\ last.op = "cancel"
  /\ last.actor = "client"
  /\ last.arg = "Cancellation reason"
  /\ last.code = 400
  /\ LastAppointment.client = "client"
  /\ LastAppointment.status = "CANCELLED"

\* C16: when the notifications of a request, update, cancel, reassign or
\* changeStatus call fail, the call is still answered with its success
\* status and the stored appointment carries the change the call made
C16_NotifierFailureKeepsOutcome ==
  [][ last'.notifier = "failed"
      => /\ last'.mail # {}
         /\ last'.code = IF last'.op = "request" THEN 201 ELSE 200
         /\ last'.id \in 1..Len(appointments')
         /\ LET before == appointments[last'.id]
                after == appointments'[last'.id]
            IN CASE last'.op = "request" ->
                      /\ Len(appointments') = Len(appointments) + 1
                      /\ after.client = last'.actor
                 [] last'.op = "update" -> after.status # before.status
                 [] last'.op = "cancel" ->
                      after = [before EXCEPT
                                 !.status = "CANCELLED",
                                 !.description = AppendNote(@, last'.arg),
                                 !.updated_at = now]
                 [] last'.op = "reassign" ->
                      after = [before EXCEPT !.staff = last'.arg,
                                             !.updated_at = now]
                 [] last'.op = "changeStatus" -> after.status = last'.arg
                 [] OTHER -> FALSE
    ]_vars

C16_Witness ==
  /\ last.notifier = "failed"
  /\ last.op = "reassign"
  /\ last.code = 200
  /\ LastAppointment.staff = last.arg

\* C17 as stated: reassign succeeds for an administrator naming an existing
\* user and for nobody else; it then stores the new staff, stamps
\* updated_at, notifies the new staff and the client, and notifies the
\* previous staff exactly when the previous and the new staff differ
C17_PreviousStaffNotifiedWhenDifferent ==
  [][ last'.op = "reassign"
      => /\ last'.code = 200
              <=> /\ Role(last'.actor) = "ADMIN"
                  /\ last'.arg \in users
                  /\ Exists(last'.id)
         /\ last'.code = 200
              => LET before == appointments[last'.id]
                     after == appointments'[last'.id]
                 IN /\ after.staff = last'.arg
                    /\ after.updated_at = now
                    /\ <<"assignment", last'.arg>> \in last'.mail
                    /\ <<"clientReassigned", before.client>> \in last'.mail
                    /\ <<"staffReassigned", before.staff>> \in last'.mail
                         <=> before.staff # last'.arg
    ]_vars

\* C17 amended: as stated, except that the previous staff is notified
\* exactly when the previous and the new staff differ and the previous
\* staff is still a user
C17_PreviousStaffNotifiedWhenKnown ==
  [][ last'.op = "reassign"
      => /\ last'.code = 200
              <=> /\ Role(last'.actor) = "ADMIN"
                  /\ last'.arg \in users
                  /\ Exists(last'.id)
         /\ last'.code = 200
              => LET before == appointments[last'.id]
                     after == appointments'[last'.id]
                 IN /\ after = [before EXCEPT !.staff = last'.arg,
                                              !.updated_at = now]
                    /\ after.updated_at >= before.updated_at
                    /\ last'.mail =
                         {<<"assignment", last'.arg>>,
                          <<"clientReassigned", before.client>>}
                         \cup
                         (IF before.staff # last'.arg /\ before.staff \in users
                          THEN {<<"staffReassigned", before.staff>>} ELSE {})
    ]_vars

C17_Witness ==
  /\ last.op = "reassign"
  /\ last.code = 200
  /\ LastAppointment.staff = "admin"
  /\ <<"staffReassigned", "agent">> \in last.mail

\* C18: a successful cancel notifies the client unless the client cancelled
\* and the assigned staff unless the assigned staff cancelled, and nobody
\* else
C18_CancelNotifiesOtherParties ==
  [][ (last'.op = "cancel" /\ last'.code = 200)
      => LET a == appointments[last'.id]
         IN last'.mail =
              {<<"statusChange", a.client>> : x \in {a.client} \ {last'.actor}}
              \cup
              {<<"staffCancelled", a.staff>> : x \in {a.staff} \ {last'.actor}}
    ]_vars

C18_Witness ==
  /\ last.op = "cancel"
  /\ last.code = 200
  /\ last.actor = "admin"
  /\ last.mail = {<<"statusChange", "client">>, <<"staffCancelled", "agent">>}

\* C19 as stated: every stored appointment ends after it starts
C19_EndAfterStart ==
  \A id \in 1..Len(appointments) :
    appointments[id].endTime > appointments[id].startTime

\* C20: the client, the service type and the service id of a stored
\* appointment never change
C20_IdentityNeverChanges ==
  [][ \A id \in 1..Len(appointments) :
        /\ appointments'[id].client = appointments[id].client
        /\ appointments'[id].serviceType = appointments[id].serviceType
        /\ appointments'[id].serviceId = appointments[id].serviceId
    ]_vars

C20_Witness ==
  /\ last.op = "update"
  /\ last.code = 200
  /\ last.keys = {"client", "serviceType", "serviceId"}
  /\ LastAppointment.client = "client"
  /\ LastAppointment.serviceType = "VISA"
  /\ LastAppointment.serviceId = "svc"

\* C21: a listing answered to a caller who is not an administrator holds
\* only appointments the caller is client or staff of, and only those the
\* caller is client of unless the caller is AGENT or SUPPORT; every
\* appointment listed meets the filters of the query
C21_ListScoped ==
  (last.op = "list" /\ last.code = 200 /\ Role(last.actor) # "ADMIN") =>
    \A k \in 1..Len(last.result.appointments) :
      LET appointment == appointments[last.result.appointments[k]]
      IN /\ appointment.client = last.actor \/ appointment.staff = last.actor
         /\ Role(last.actor) \notin {"AGENT", "SUPPORT"}
              => appointment.client = last.actor
         /\ additionalFilters(last.query, appointment)

\* a regular user who is staff of an appointment that meets the filters of
\* the query lists with filters and is shown nothing
C21_Witness ==
  /\ last.op = "list"
  /\ last.code = 200
  /\ last.actor = "owner"
  /\ last.query.has # {}
  /\ last.result.appointments = <<>>
  /\ \E id \in 1..Len(appointments) :
       /\ appointments[id].staff = "owner"
       /\ additionalFilters(last.query, appointments[id])

C23_CancelledIsTerminal ==
  [][ \A id \in 1..Len(appointments) :
        appointments[id].status = "CANCELLED"
          => appointments'[id].status = "CANCELLED" ]_vars

\* C24 as stated: the reminders of every stored appointment are the two at
\* one day and at one hour before its startTime
C24_RemindersFollowStartTime ==
  \A id \in 1..Len(appointments) :
    LET appointment == appointments[id]
    IN /\ Len(appointment.reminders) = 2
       /\ appointment.reminders[1].time = appointment.startTime - REMINDER_DAY
       /\ appointment.reminders[2].time = appointment.startTime - REMINDER_HOUR

\* C28 as stated: at every dispatch of a reminder the stored status of its
\* appointment is neither CANCELLED nor COMPLETED
C28_NoDispatchOnceInactive ==
  [][ last'.op = "scanDispatch"
        => appointments[last'.item[1]].status \notin {"CANCELLED", "COMPLETED"}
    ]_vars

\* C28 amended: the reminders a scan takes up are those of appointments
\* that are SCHEDULED or RESCHEDULED when its query runs; from then on the
\* scan dispatches the first of the reminders it still holds, whatever the
\* stored status has become, and takes up no other reminder
C28_StatusReadAtQuery ==
  [][ /\ last'.op = "scanStart"
        => \A k \in 1..Len(scan'.items) :
             appointments[scan'.items[k].id].status \in {"SCHEDULED", "RESCHEDULED"}
      /\ last'.op = "scanDispatch"
        => /\ scan.pc = "send"
           /\ last'.item = <<Head(scan.items).id, Head(scan.items).idx>>
           /\ scan'.items = scan.items
      /\ last'.op # "scanStart" => ItemsIn(scan'.items) \subseteq ItemsIn(scan.items)
    ]_vars

\* a reminder has just been dispatched for an appointment that was
\* cancelled, or completed, after the query of the scan
C28_Witness ==
  /\ last.op = "scanDispatch"
  /\ appointments[last.item[1]].status \in {"CANCELLED", "COMPLETED"}

\* C29 as stated: of two scans that run at the same time, neither
\* dispatches a reminder the other has dispatched (and has marked sent, or
\* is about to)
C29_NoDoubleDispatch ==
  [][ /\ last'.op = "overlapDispatch"
        => /\ ~appointments[last'.item[1]].reminders[last'.item[2]].sent
           /\ ~(scan.pc = "mark" /\ HeadKey(scan) = last'.item)
      /\ last'.op = "scanDispatch"
        => /\ ~appointments[last'.item[1]].reminders[last'.item[2]].sent
           /\ ~(overlap.pc = "mark" /\ HeadKey(overlap) = last'.item)
    ]_vars

\* C29 amended: each scan takes up only reminders that are stored unsent
\* when its query runs, each of them once; it dispatches the first of the
\* reminders it holds and drops it when it has marked it, so that one scan
\* dispatches a reminder at most once
C29_OncePerScan ==
  [][ /\ last'.op = "scanStart"
        => /\ \A k \in 1..Len(scan'.items) :
                ~appointments[scan'.items[k].id].reminders[scan'.items[k].idx].sent
           /\ Cardinality(ItemsIn(scan'.items)) = Len(scan'.items)
      /\ last'.op = "overlapStart"
        => /\ \A k \in 1..Len(overlap'.items) :
                ~appointments[overlap'.items[k].id].reminders[overlap'.items[k].idx].sent
           /\ Cardinality(ItemsIn(overlap'.items)) = Len(overlap'.items)
      /\ last'.op = "scanDispatch"
        => last'.item = HeadKey(scan) /\ scan'.items = scan.items
      /\ last'.op = "overlapDispatch"
        => last'.item = HeadKey(overlap) /\ overlap'.items = overlap.items
      /\ last'.op = "scanMark" => scan'.items = Tail(scan.items)
      /\ last'.op = "overlapMark" => overlap'.items = Tail(overlap.items)
      /\ last'.op \notin {"scanStart", "scanMark", "restart"}
           => scan'.items = scan.items
      /\ last'.op \notin {"overlapStart", "overlapMark", "restart"}
           => overlap'.items = overlap.items
    ]_vars

\* both scans have dispatched the same reminder, with success, and neither
\* has marked it yet
C29_Witness ==
  /\ scan.pc = "mark"
  /\ overlap.pc = "mark"
  /\ HeadKey(scan) = HeadKey(overlap)
  /\ scan.outcome = "delivered"
  /\ overlap.outcome = "delivered"

C30_WrittenOnlyWhileAssigned ==
  [][ ( /\ last'.op \in {"update", "changeStatus"}
        /\ last'.code = 200
        /\ ~isAdmin(last'.actor) )
      => appointments[last'.id].staff = last'.actor ]_vars

\* C30 amended: an update or a changeStatus is written only for a caller
\* who is an administrator or was the staff of the appointment in the
\* document the handler read; the handler does not look at the staff again
\* before it writes
C30_PermissionAtRead ==
  [][ /\ \A slot \in Slots :
           ( /\ calls[slot].pc # "write"
             /\ calls'[slot].pc = "write"
             /\ calls'[slot].op \in {"update", "changeStatus"} )
           => \/ isAdmin(calls'[slot].actor)
              \/ appointments[calls'[slot].id].staff = calls'[slot].actor
      /\ (last'.op \in {"update", "changeStatus"} /\ last'.code = 200)
           => \E slot \in Slots :
                /\ calls[slot].pc = "write"
                /\ calls'[slot].pc = "done"
                /\ calls[slot].op = last'.op
                /\ calls[slot].actor = last'.actor
                /\ calls[slot].id = last'.id
                /\ \/ isAdmin(last'.actor)
                   \/ calls[slot].doc.staff = last'.actor
    ]_vars

\* the update of the agent has been written to an appointment that was
\* reassigned to the administrator after the agent's permission check
C30_Witness ==
  /\ last.op = "update"
  /\ last.code = 200
  /\ last.actor = "agent"
  /\ appointments[last.id].staff = "admin"
  /\ appointments[last.id].startTime = 2

\* C25 as stated: the write of a lifecycle handler leaves every sent flag
\* that is stored as true, and the write of the scan sets the flag of its
\* reminder and leaves every other field of the appointment
C25_NoLostUpdate ==
  [][ /\ ( /\ last'.op \in {"update", "cancel", "reassign", "changeStatus"}
           /\ last'.code = 200 )
        => \A idx \in 1..Len(appointments[last'.id].reminders) :
             appointments[last'.id].reminders[idx].sent
               => appointments'[last'.id].reminders[idx].sent
      /\ last'.op = "scanMark"
        => appointments'[last'.id] =
             [appointments[last'.id] EXCEPT !.reminders[last'.item[2]].sent = TRUE]
    ]_vars

\* C25 amended: cancel, reassign, changeStatus and an update whose body has
\* no reminders key leave the stored reminders as they are and store their
\* own changes; the scan sets the flag of its reminder and nothing else; an
\* update whose body has the reminders key stores the list of the body
C25_WritesByField ==
  [][ /\ ( /\ last'.op \in {"update", "cancel", "reassign", "changeStatus"}
           /\ last'.code = 200 )
        => LET before == appointments[last'.id]
               after == appointments'[last'.id]
           IN /\ "reminders" \notin last'.keys => after.reminders = before.reminders
              /\ last'.op = "cancel" => after.status = "CANCELLED"
              /\ last'.op = "changeStatus" => after.status = last'.arg
              /\ last'.op = "reassign" => after.staff = last'.arg
              /\ (last'.op = "update" /\ "reminders" \in last'.keys)
                   => \E slot \in Slots :
                        /\ calls[slot].pc = "write"
                        /\ calls'[slot].pc = "done"
                        /\ after.reminders = calls[slot].body.reminders
      /\ last'.op = "scanMark"
        => appointments'[last'.id] =
             [appointments[last'.id] EXCEPT !.reminders[last'.item[2]].sent = TRUE]
    ]_vars

\* a changeStatus that read the appointment before the scan marked its
\* first reminder has written after the mark, and the stored record has
\* both the new status and the flag
C25_Witness ==
  /\ last.op = "changeStatus"
  /\ last.code = 200
  /\ calls["one"].pc = "done"
  /\ calls["one"].op = "changeStatus"
  /\ ~calls["one"].doc.reminders[1].sent
  /\ appointments[last.id].reminders[1].sent
  /\ appointments[last.id].status = last.arg

\* The reminder is stored unsent and its time has come, for an appointment
\* that is SCHEDULED or RESCHEDULED, and the running scan is not about to
\* mark it after a mail that went out
Due(key) ==
  /\ key[1] \in 1..Len(appointments)
  /\ LET appointment == appointments[key[1]]
     IN /\ appointment.status \in {"SCHEDULED", "RESCHEDULED"}
        /\ key[2] \in 1..Len(appointment.reminders)
        /\ ~appointment.reminders[key[2]].sent
        /\ appointment.reminders[key[2]].time <= now
  /\ ~(scan.pc = "mark" /\ HeadKey(scan) = key /\ scan.outcome = "delivered")

\* The mail of the reminder has just gone out
Delivered(key) ==
  /\ last.op = "scanDispatch"
  /\ last.msg = "delivered"
  /\ last.item = key

Inactive(key) ==
  /\ key[1] \in 1..Len(appointments)
  /\ appointments[key[1]].status \notin {"SCHEDULED", "RESCHEDULED"}

\* C26 as stated: with scans that keep coming and a mail service that is
\* not down for ever, the mail of every reminder that is due and unsent goes
\* out at some time, unless the appointment leaves SCHEDULED and RESCHEDULED
C26_EventuallyDelivered ==
  \A key \in ItemSet : Due(key) ~> (Delivered(key) \/ Inactive(key))
====
